---------------------------- MODULE Spec2Model ----------------------------
(***************************************************************************)
(* A model of the google_workspace_agent package:                          *)
(*   - integration.py: WorkspaceIntegration, the orchestrator that asks    *)
(*     the language model for an intent, routes it to one of five service  *)
(*     clients or to the multi-service planner, which re-enters the        *)
(*     orchestrator once per entry of the model's decomposition;           *)
(*   - llm_client.py: ConversationContext and GroqLLMClient, the bounded   *)
(*     conversation history and the completion call;                       *)
(*   - auth.py: GoogleWorkspaceAuth, the token file and the cached         *)
(*     credential.                                                         *)
(*                                                                         *)
(* The language model and the service clients are the environment: every   *)
(* call to them either raises or returns one of a small set of values.     *)
(*                                                                         *)
(* Python values are records told apart by their field names:              *)
(*   str            [raw |-> s]    a text json.loads cannot parse          *)
(*                  [json |-> v]   the text json.dumps(v)                  *)
(*                  [repr |-> v]   the text str(v) of a non-string value   *)
(*   JSON value     [null], [num], [str], [list], [keys, obj]              *)
(*   exception      [type, text]   text is str(e), a sequence of str       *)
(*   dict result    [status, message] | [status, result] |                 *)
(*                  [status, results]; None is [none |-> TRUE]             *)
(***************************************************************************)
EXTENDS Integers, Sequences, FiniteSets, TLC

VARIABLES
    stack,      \* the Python call stack of the orchestrator, innermost frame last
    ret,        \* what the outermost process_natural_language_request gave its caller
    messages,   \* ConversationContext.messages
    max_context_length, \* ConversationContext.max_context_length
    appended,   \* every message passed to add_message since construction or clear()
    call,       \* the last operation completed on the context / LLM client
    token_file, \* what the file at GoogleWorkspaceAuth.token_path holds
    credentials, \* GoogleWorkspaceAuth.credentials
    clients,    \* the credential the service clients were constructed with
    auth_call,  \* the last operation completed on the credential provider or a client
    threads,    \* per thread calling generate_response: where it is and its locals
    lock        \* the caller-supplied lock: "none" when the caller supplies none,
                \* else "free" or the thread that holds it

orchVars == <<stack, ret>>
llmVars == <<messages, max_context_length, appended, call>>
authVars == <<token_file, credentials, clients, auth_call>>
raceVars == <<threads, lock>>
vars == <<stack, ret, messages, max_context_length, appended, call,
          token_file, credentials, clients, auth_call, threads, lock>>

(***************************************************************************)
(* Bounds of the exploration.                                              *)
(***************************************************************************)
\* nested activations of process_natural_language_request that are explored
MaxDepth == 2
\* largest max_context_length a context is configured with
MaxCtx == 3
\* add_message calls explored on one context between two clear() calls
MaxAppends == 4
\* largest max_length summarize_text is called with
MaxSummaryLength == 3
\* messages appended beyond the default capacity of the history
MaxEvicted == 4
\* model calls that succeed within one session of the orchestrator
MaxSessionCalls == 2

(***************************************************************************)
(* Python / JSON values.                                                   *)
(***************************************************************************)
Empty == [x \in {} |-> 0]

Raw(s) == [raw |-> s]
JNull == [null |-> TRUE]
JNum(n) == [num |-> n]
JList == [list |-> TRUE]
JStr(text) == [str |-> text]
JS(s) == JStr(Raw(s))
JObj(keys, obj) == [keys |-> keys, obj |-> obj]
EmptyDict == JObj(<<>>, Empty)

IsDict(v) == DOMAIN v = {"keys", "obj"}
IsStr(v) == DOMAIN v = {"str"}

\* dict.get(key, default)
Get(d, key, default) == IF key \in DOMAIN d.obj THEN d.obj[key] ELSE default

\* str(v), as an f-string formats a value
Str(v) == IF IsStr(v) THEN v.str ELSE [repr |-> v]

NoException == [noexc |-> TRUE]
Exception(type, text) == [type |-> type, text |-> text]
IsException(e) == DOMAIN e = {"type", "text"}

\* the outcome of evaluating a Python expression: a value or a raised exception
Val(v) == [val |-> v]
Exc(e) == [exc |-> e]
Raises(o) == DOMAIN o = {"exc"}

PyNone == [none |-> TRUE]

(***************************************************************************)
(* json.dumps and json.loads.  Only a text produced by dumps parses; the   *)
(* parse of dumps(v) is v.                                                 *)
(***************************************************************************)
JSONDecodeError == Exception("JSONDecodeError", <<Raw("Expecting value: line 1 column 1 (char 0)")>>)

json_dumps(v) == [json |-> v]

json_loads(text) ==
    IF DOMAIN text = {"json"} THEN Val(text.json) ELSE Exc(JSONDecodeError)


(***************************************************************************)
(* The environment: what the language model and the clients may do.        *)
(***************************************************************************)
\* requests a caller hands to process_natural_language_request
Requests == {Raw("mail the team and book a meeting")}

MailDetails == JObj(<<"to", "subject">>, ("to" :> JS("team@company.com")) @@ ("subject" :> JS("Kickoff")))
EventDetails == JObj(<<"summary">>, ("summary" :> JS("Team Meeting")))

Intent(service, action, details) ==
    JObj(<<"service", "action", "details">>,
         ("service" :> service) @@ ("action" :> action) @@ ("details" :> details))

SendMail == [action |-> JS("send"), details |-> MailDetails]
CreateEvent == [action |-> JS("create"), details |-> EventDetails]
SubIntent(s) == JObj(<<"action", "details">>, ("action" :> s.action) @@ ("details" :> s.details))

\* texts the model answers with that parse as one intent
IntentAnswers ==
    { json_dumps(Intent(JS("email"), JS("send"), MailDetails)),
      json_dumps(Intent(JS("calendar"), JS("create"), EventDetails)),
      \* a known service with an action its handler does not know
      json_dumps(Intent(JS("email"), JS("archive"), MailDetails)),
      \* details that is not a mapping
      json_dumps(Intent(JS("email"), JS("send"), JS("to the team"))),
      \* a service that is none of the six
      json_dumps(Intent(JS("fax"), JS("send"), MailDetails)),
      json_dumps(Intent(JS("multi"), JS("interpret"), JS("mail and meeting"))),
      \* an object without service, and one without action
      json_dumps(JObj(<<"action">>, ("action" :> JS("send")))),
      json_dumps(JObj(<<"service">>, ("service" :> JS("docs")))) }

\* texts the model answers with that parse as a decomposition
DecompositionAnswers ==
    { json_dumps(JObj(<<"email", "calendar">>,
                      ("email" :> SubIntent(SendMail)) @@ ("calendar" :> SubIntent(CreateEvent)))),
      \* a second entry that is not a mapping
      json_dumps(JObj(<<"email", "calendar">>,
                      ("email" :> SubIntent(SendMail)) @@ ("calendar" :> JS("tomorrow at ten")))),
      \* a decomposition that names the planner itself
      json_dumps(JObj(<<"multi">>,
                      ("multi" :> SubIntent([action |-> JS("interpret"), details |-> JS("mail and meeting")])))),
      json_dumps(EmptyDict) }

\* every text the model may answer with: free text, JSON that is no object, objects
AnswerSet ==
    {Raw("Sure! I can help with that."), json_dumps(JList)}
        \cup IntentAnswers \cup DecompositionAnswers

LLMError == Exception("APIConnectionError", <<Raw("Connection error.")>>)

\* the outcomes of one generate_response call seen from the orchestrator
LLMOutcomes == {Exc(LLMError)} \cup {Val(a) : a \in AnswerSet}

ItemIds == {"id-1"}

HttpError(client, op) == Exception("HttpError", <<Raw("HttpError 403 "), Raw(client), Raw("."), Raw(op)>>)

\* the outcomes of one client operation: the item it returns, or a raise
ClientOutcomes == {[raise |-> TRUE, id |-> ""]} \cup {[raise |-> FALSE, id |-> i] : i \in ItemIds}

\* client.op(**args) under outcome out
ClientCall(client, op, args, out) ==
    IF out.raise THEN Exc(HttpError(client, op))
    ELSE Val([client |-> client, op |-> op, args |-> args, id |-> out.id])

(***************************************************************************)
(* integration.py: the five service handlers.                              *)
(***************************************************************************)
\* per service: the client, and per known action the operation and its
\* keyword arguments, each read from details under its own name with a default
Param(name, default) == [name |-> name, default |-> default]

Handlers ==
    [ email |->
        [ client |-> "gmail_client",
          actions |->
            << [action |-> "send", op |-> "create_item",
                params |-> <<Param("to", JS("")), Param("subject", JS("")), Param("body", JS(""))>>],
               [action |-> "read", op |-> "list_items",
                params |-> <<Param("max_results", JNum(10)), Param("query", JNull)>>] >> ],
      calendar |->
        [ client |-> "calendar_client",
          actions |->
            << [action |-> "create", op |-> "create_item",
                params |-> <<Param("summary", JS("")), Param("start_time", JNull),
                             Param("end_time", JNull), Param("description", JNull),
                             Param("attendees", JNull)>>],
               [action |-> "list", op |-> "list_items",
                params |-> <<Param("max_results", JNum(10)), Param("time_min", JNull),
                             Param("time_max", JNull)>>] >> ],
      drive |->
        [ client |-> "drive_client",
          actions |->
            << [action |-> "upload", op |-> "upload_file",
                params |-> <<Param("local_path", JS("")), Param("name", JNull),
                             Param("parent_id", JNull)>>],
               [action |-> "list", op |-> "list_items",
                params |-> <<Param("max_results", JNum(10)), Param("query", JNull)>>] >> ],
      sheets |->
        [ client |-> "sheets_client",
          actions |->
            << [action |-> "create", op |-> "create_item",
                params |-> <<Param("title", JS("")), Param("sheets", JNull)>>],
               [action |-> "read", op |-> "read_values",
                params |-> <<Param("spreadsheet_id", JS("")), Param("range_name", JS(""))>>] >> ],
      docs |->
        [ client |-> "docs_client",
          actions |->
            << [action |-> "create", op |-> "create_item",
                params |-> <<Param("title", JS("")), Param("content", JNull)>>],
               [action |-> "append", op |-> "append_text",
                params |-> <<Param("document_id", JS("")), Param("text", JS(""))>>] >> ] ]

Services == DOMAIN Handlers

AttributeError(type, attr) ==
    Exception("AttributeError", <<Raw("'"), Raw(type), Raw("' object has no attribute '"), Raw(attr), Raw("'")>>)

\* type(v).__name__
TypeName(v) ==
    IF IsDict(v) THEN "dict"
    ELSE IF IsStr(v) THEN "str"
    ELSE IF DOMAIN v = {"null"} THEN "NoneType"
    ELSE IF DOMAIN v = {"num"} THEN "int"
    ELSE "list"

\* Arguments with details ignored: every parameter gets its default
Arguments_DefaultsOnly(params, details) ==
    [n \in {params[i].name : i \in DOMAIN params} |->
        (CHOOSE q \in {params[i] : i \in DOMAIN params} : q.name = n).default]

\* {name: details.get(name, default)} for the parameters of one branch
Arguments(params, details) ==
    [n \in {params[i].name : i \in DOMAIN params} |->
        LET p == CHOOSE q \in {params[i] : i \in DOMAIN params} : q.name = n
        IN  Get(details, n, p.default)]

Success(payload) == [status |-> "success", result |-> payload]

\* HandlerCalls with a failed operation invoked a second time
HandlerCalls_RetryOnce(service, intent, out) ==
    LET h == Handlers[service]
        action == Get(intent, "action", JS(""))
        details == Get(intent, "details", EmptyDict)
        known == {i \in DOMAIN h.actions : action = JS(h.actions[i].action)}
    IN  IF known = {} \/ ~IsDict(details) THEN <<>>
        ELSE LET b == h.actions[CHOOSE i \in known : TRUE]
                 args == Arguments(b.params, details)
                 c == [client |-> h.client, op |-> b.op, args |-> args,
                       outcome |-> ClientCall(h.client, b.op, args, out)]
             IN  IF out.raise THEN <<c, c>> ELSE <<c>>

\* the client operations _handle_<service>_request invokes, in order, each
\* with its keyword arguments and what it gave under outcome out: none when
\* no branch matches the action or reading details fails, else one
HandlerCalls(service, intent, out) ==
    LET h == Handlers[service]
        action == Get(intent, "action", JS(""))
        details == Get(intent, "details", EmptyDict)
        known == {i \in DOMAIN h.actions : action = JS(h.actions[i].action)}
    IN  IF known = {} \/ ~IsDict(details) THEN <<>>
        ELSE LET b == h.actions[CHOOSE i \in known : TRUE]
                 args == Arguments(b.params, details)
             IN  << [client |-> h.client, op |-> b.op, args |-> args,
                     outcome |-> ClientCall(h.client, b.op, args, out)] >>

\* the body shared by _handle_<service>_request: the if/elif chain on action
HandleService(service, intent, out) ==
    LET h == Handlers[service]
        action == Get(intent, "action", JS(""))
        details == Get(intent, "details", EmptyDict)
        known == {i \in DOMAIN h.actions : action = JS(h.actions[i].action)}
    IN  IF known = {} THEN Val(PyNone)
        ELSE IF ~IsDict(details) THEN Exc(AttributeError(TypeName(details), "get"))
        ELSE LET r == HandlerCalls(service, intent, out)[1].outcome
             IN  IF Raises(r) THEN r ELSE Val(Success(r.val))

handle_email_request(intent, out) == HandleService("email", intent, out)
handle_calendar_request(intent, out) == HandleService("calendar", intent, out)
handle_drive_request(intent, out) == HandleService("drive", intent, out)
handle_sheets_request(intent, out) == HandleService("sheets", intent, out)
handle_docs_request(intent, out) == HandleService("docs", intent, out)

(***************************************************************************)
(* integration.py: intent extraction and the router.                       *)
(***************************************************************************)
Pending == [pending |-> TRUE]
NoText == [notext |-> TRUE]
NoValue == [unset |-> TRUE]

\* FallbackIntent with the request text left out of details
FallbackIntent_EmptyDetails(request) == Intent(JS("multi"), JS("interpret"), JS(""))

\* the intent _extract_intent falls back to
FallbackIntent(request) == Intent(JS("multi"), JS("interpret"), JStr(request))

\* _extract_intent(request) when generate_response has outcome out
extract_intent(request, out) ==
    IF Raises(out) THEN out
    ELSE LET parsed == json_loads(out.val)
         IN  IF Raises(parsed) /\ parsed.exc.type = "JSONDecodeError"
             THEN Val(FallbackIntent(request))
             ELSE parsed

TypeError(v) ==
    Exception("TypeError", <<Raw(TypeName(v)), Raw(" indices must be integers")>>)
KeyError(key) == Exception("KeyError", <<Raw("'"), Raw(key), Raw("'")>>)

\* intent['service']
ServiceOf(intent) ==
    IF ~IsDict(intent) THEN Exc(TypeError(intent))
    ELSE IF "service" \notin DOMAIN intent.obj THEN Exc(KeyError("service"))
    ELSE Val(intent.obj["service"])

\* Unsupported with the name of the service left out of the message
Unsupported_NoName(service) ==
    [status |-> "error", message |-> <<Raw("Unsupported service")>>]

Unsupported(service) ==
    [status |-> "error", message |-> <<Raw("Unsupported service: "), Str(service)>>]

\* the if/elif chain of process_natural_language_request for every service
\* but 'multi', with the client's outcome out
RouteSingle(intent, out) ==
    LET s == ServiceOf(intent)
    IN  IF Raises(s) THEN s
        ELSE IF s.val = JS("email") THEN handle_email_request(intent, out)
        ELSE IF s.val = JS("calendar") THEN handle_calendar_request(intent, out)
        ELSE IF s.val = JS("drive") THEN handle_drive_request(intent, out)
        ELSE IF s.val = JS("sheets") THEN handle_sheets_request(intent, out)
        ELSE IF s.val = JS("docs") THEN handle_docs_request(intent, out)
        ELSE Val(Unsupported(s.val))

\* the client operations the if/elif chain invokes for intent
RouteCalls(intent, out) ==
    LET s == ServiceOf(intent)
        named == IF Raises(s) THEN {} ELSE {x \in Services : s.val = JS(x)}
    IN  IF named = {} THEN <<>>
        ELSE HandlerCalls(CHOOSE x \in named : TRUE, intent, out)

\* IsMulti with a guard: 'multi' is routed to the planner only when no
\* planner is active
IsMulti_Guarded(intent) ==
    LET s == ServiceOf(intent)
    IN  /\ ~Raises(s) /\ s.val = JS("multi")
        /\ \A i \in DOMAIN stack : stack[i].fn # "multi"

IsMulti(intent) ==
    LET s == ServiceOf(intent) IN ~Raises(s) /\ s.val = JS("multi")

\* ProcessExcept narrowed to `except KeyError`: any other error propagates
ProcessExcept_KeyErrorOnly(e) ==
    IF e.type = "KeyError" THEN Val([status |-> "error", message |-> e.text]) ELSE Exc(e)

\* the except clause of process_natural_language_request
ProcessExcept(e) == Val([status |-> "error", message |-> e.text])

\* what the try block of process_natural_language_request makes of outcome o
ProcessTry(o) == IF Raises(o) THEN ProcessExcept(o.exc) ELSE o

(***************************************************************************)
(* integration.py: the multi-service planner.                              *)
(***************************************************************************)
\* MultiExcept without the fixed prefix of the message
MultiExcept_NoPrefix(e) == Val([status |-> "error", message |-> e.text])

\* the except clause of _handle_multi_service_request
MultiExcept(e) ==
    Val([status |-> "error",
         message |-> <<Raw("Multi-service request processing failed: ")>> \o e.text])

\* the prompt of the decomposition call
BreakdownPrompt(intent) ==
    [template |-> "Break down this multi-service request into specific actions:",
     details |-> Str(Get(intent, "details", JS("")))]

\* the intent the planner builds for one entry of the decomposition
ServiceIntent(service, service_actions) ==
    Intent(JS(service), Get(service_actions, "action", JNull),
           Get(service_actions, "details", EmptyDict))

\* the request the planner hands back to process_natural_language_request
SubRequest(service, service_actions) == json_dumps(ServiceIntent(service, service_actions))

Bundle(results) == [status |-> "success", results |-> results]

(***************************************************************************)
(* The call stack.                                                         *)
(***************************************************************************)
ProcessFrame(request) ==
    [fn |-> "process", pc |-> "extract", request |-> request, response |-> NoText,
     intent |-> NoValue, calls |-> <<>>, caught |-> NoException, outcome |-> Pending]

MultiFrame(intent) ==
    [fn |-> "multi", pc |-> "breakdown", intent |-> intent, breakdown |-> NoText,
     actions |-> NoValue, todo |-> <<>>, results |-> Empty, calls |-> <<>>,
     outcome |-> Pending]

Top == stack[Len(stack)]
Below == SubSeq(stack, 1, Len(stack) - 1)
ReplaceTop(f) == Below \o <<f>>
Depth == Cardinality({i \in DOMAIN stack : stack[i].fn = "process"})

At(fn, pc) == stack # <<>> /\ Top.fn = fn /\ Top.pc = pc

\* the process frame after its try block ended with outcome o
Finished(f, o) ==
    [f EXCEPT !.pc = "done",
              !.caught = IF Raises(o) THEN o.exc ELSE NoException,
              !.outcome = ProcessTry(o)]

(***************************************************************************)
(* The orchestrator, one step per call to the environment or return.       *)
(***************************************************************************)
\* a caller calls process_natural_language_request(request)
Start ==
    /\ stack = <<>>
    /\ \E request \in Requests : stack' = <<ProcessFrame(request)>>
    /\ ret' = Pending
    /\ UNCHANGED <<llmVars, authVars, raceVars>>

\* intent = self._extract_intent(request)
ExtractIntent ==
    /\ At("process", "extract")
    /\ \E out \in LLMOutcomes :
         LET r == extract_intent(Top.request, out)
             f == IF Raises(out) THEN Top ELSE [Top EXCEPT !.response = out.val]
         IN  stack' = ReplaceTop(
                 IF Raises(r) THEN Finished(f, r)
                 ELSE [f EXCEPT !.pc = "route", !.intent = r.val])
    /\ UNCHANGED <<ret, llmVars, authVars, raceVars>>

\* the routing of an intent whose service is not 'multi': one handler runs,
\* with at most one client operation
RouteService ==
    /\ At("process", "route")
    /\ ~IsMulti(Top.intent)
    /\ \E out \in ClientOutcomes :
         stack' = ReplaceTop(Finished([Top EXCEPT !.calls = RouteCalls(Top.intent, out)],
                                      RouteSingle(Top.intent, out)))
    /\ UNCHANGED <<ret, llmVars, authVars, raceVars>>

\* return self._handle_multi_service_request(intent); the activation does
\* not read intent or the model's answer again, and the frame forgets them
RouteMulti ==
    /\ At("process", "route")
    /\ IsMulti(Top.intent)
    /\ stack' = ReplaceTop([Top EXCEPT !.pc = "call", !.response = NoText, !.intent = NoValue])
                   \o <<MultiFrame(Top.intent)>>
    /\ UNCHANGED <<ret, llmVars, authVars, raceVars>>

\* Decomposed with the decomposition call made inside the try block
Decomposed_CallInsideTry(f, out) ==
    IF Raises(out)
    THEN [f EXCEPT !.pc = "done", !.intent = NoValue, !.outcome = MultiExcept(out.exc)]
    ELSE LET parsed == json_loads(out.val)
             g == [f EXCEPT !.breakdown = out.val, !.intent = NoValue]
         IN  IF Raises(parsed)
             THEN [g EXCEPT !.pc = "done", !.outcome = MultiExcept(parsed.exc)]
             ELSE IF ~IsDict(parsed.val)
             THEN [g EXCEPT !.pc = "done", !.actions = parsed.val,
                            !.outcome = MultiExcept(AttributeError(TypeName(parsed.val), "items"))]
             ELSE [g EXCEPT !.pc = "loop", !.actions = parsed.val,
                            !.todo = parsed.val.keys]

\* the planner frame after the decomposition call had outcome out:
\* breakdown = generate_response(...); actions = json.loads(breakdown).
\* intent is read for the prompt only, and the frame forgets it
Decomposed(f, out) ==
    IF Raises(out) THEN [f EXCEPT !.pc = "done", !.intent = NoValue, !.outcome = out]
    ELSE LET parsed == json_loads(out.val)
             g == [f EXCEPT !.breakdown = out.val, !.intent = NoValue]
         IN  IF Raises(parsed)
             THEN [g EXCEPT !.pc = "done", !.outcome = MultiExcept(parsed.exc)]
             ELSE IF ~IsDict(parsed.val)
             THEN [g EXCEPT !.pc = "done", !.actions = parsed.val,
                            !.outcome = MultiExcept(AttributeError(TypeName(parsed.val), "items"))]
             ELSE [g EXCEPT !.pc = "loop", !.actions = parsed.val,
                            !.todo = parsed.val.keys]

Breakdown ==
    /\ At("multi", "breakdown")
    /\ \E out \in LLMOutcomes : stack' = ReplaceTop(Decomposed(Top, out))
    /\ UNCHANGED <<ret, llmVars, authVars, raceVars>>

\* one iteration of `for service, service_actions in actions.items()` up to
\* the recursive call
LoopCall ==
    /\ At("multi", "loop")
    /\ Top.todo # <<>>
    /\ LET service == Head(Top.todo)
           service_actions == Top.actions.obj[service]
       IN  IF ~IsDict(service_actions)
           THEN stack' = ReplaceTop(
                    [Top EXCEPT !.pc = "done",
                                !.outcome = MultiExcept(AttributeError(TypeName(service_actions), "get"))])
           ELSE /\ Depth < MaxDepth
                /\ stack' = ReplaceTop([Top EXCEPT !.pc = "wait"])
                               \o <<ProcessFrame(SubRequest(service, service_actions))>>
    /\ UNCHANGED <<ret, llmVars, authVars, raceVars>>

\* the loop is over: return {'status': 'success', 'results': results}
LoopEnd ==
    /\ At("multi", "loop")
    /\ Top.todo = <<>>
    /\ stack' = ReplaceTop([Top EXCEPT !.pc = "done", !.outcome = Val(Bundle(Top.results))])
    /\ UNCHANGED <<ret, llmVars, authVars, raceVars>>

IsError(result) == "status" \in DOMAIN result /\ result.status = "error"
IsSuccess(result) == "status" \in DOMAIN result /\ result.status = "success"

\* Collected with a failed sub-result aborting the whole bundle
Collected_AbortOnError(f, o) ==
    IF Raises(o) THEN [f EXCEPT !.pc = "done", !.outcome = MultiExcept(o.exc)]
    ELSE IF IsError(o.val)
    THEN [f EXCEPT !.pc = "done",
                   !.outcome = MultiExcept(Exception("RuntimeError", o.val.message))]
    ELSE [f EXCEPT !.pc = "loop",
                   !.results = (Head(f.todo) :> o.val) @@ f.results,
                   !.todo = Tail(f.todo)]

\* Collected with failed sub-results left out of results
Collected_DropFailed(f, o) ==
    IF Raises(o) THEN [f EXCEPT !.pc = "done", !.outcome = MultiExcept(o.exc)]
    ELSE IF IsError(o.val) THEN [f EXCEPT !.pc = "loop", !.todo = Tail(f.todo)]
    ELSE [f EXCEPT !.pc = "loop",
                   !.results = (Head(f.todo) :> o.val) @@ f.results,
                   !.todo = Tail(f.todo)]

\* the planner frame after the recursive call for Head(todo) ended with o:
\* results[service] = <the value>, or the except clause
Collected(f, o) ==
    IF Raises(o) THEN [f EXCEPT !.pc = "done", !.outcome = MultiExcept(o.exc)]
    ELSE [f EXCEPT !.pc = "loop",
                   !.results = (Head(f.todo) :> o.val) @@ f.results,
                   !.todo = Tail(f.todo)]

\* process_natural_language_request returns, to the planner or to the caller;
\* the client operations invoked during the activation count as invoked
\* during the planner's
ReturnProcess ==
    /\ At("process", "done")
    /\ IF Len(stack) = 1
       THEN /\ stack' = <<>>
            /\ ret' = Top.outcome
       ELSE /\ stack' = SubSeq(stack, 1, Len(stack) - 2)
                           \o <<[Collected(stack[Len(stack) - 1], Top.outcome)
                                    EXCEPT !.calls = stack[Len(stack) - 1].calls \o Top.calls]>>
            /\ ret' = ret
    /\ UNCHANGED <<llmVars, authVars, raceVars>>

\* _handle_multi_service_request returns (or raises) into the try block of
\* process_natural_language_request
ReturnMulti ==
    /\ At("multi", "done")
    /\ stack' = SubSeq(stack, 1, Len(stack) - 2)
                   \o <<Finished([stack[Len(stack) - 1] EXCEPT !.calls = Top.calls],
                                Top.outcome)>>
    /\ UNCHANGED <<ret, llmVars, authVars, raceVars>>

(***************************************************************************)
(* llm_client.py: ConversationContext and GroqLLMClient.                   *)
(***************************************************************************)
\* the default of ConversationContext.max_context_length
DefaultMaxContextLength == 10

Message(role, content) == [role |-> role, content |-> content]

\* seq[start:] with Python's reading of start: a negative start counts from
\* the end, and -0 is 0
SliceFrom(seq, start) ==
    LET n == Len(seq)
        from == IF start < 0 THEN (IF n + start < 0 THEN 0 ELSE n + start)
                ELSE (IF start > n THEN n ELSE start)
    IN  SubSeq(seq, from + 1, n)

\* ConversationContext.add_message: the messages after the call
add_message(msgs, max_length, role, content) ==
    LET added == Append(msgs, Message(role, content))
    IN  IF Len(added) > max_length THEN SliceFrom(added, -max_length) ELSE added

\* clear with the newest message kept
clear_KeepNewest(msgs) == SliceFrom(msgs, -1)

\* ConversationContext.clear
clear(msgs) == <<>>

\* a value Python takes as true in `if system_message:`
Truthy(v) == v # PyNone /\ v # Raw("")

\* the messages generate_response hands to the model
RequestMessages(msgs, prompt, system_message) ==
    (IF Truthy(system_message) THEN <<Message("system", system_message)>> ELSE <<>>)
        \o msgs \o <<Message("user", prompt)>>

\* Remembered with the answer stored and the prompt not
Remembered_AnswerOnly(msgs, max_length, prompt, text) ==
    add_message(msgs, max_length, "assistant", text)

\* Remembered with the answer stored before the prompt
Remembered_AnswerFirst(msgs, max_length, prompt, text) ==
    add_message(add_message(msgs, max_length, "assistant", text), max_length, "user", prompt)

\* the history after a generate_response whose model call returned text
Remembered(msgs, max_length, prompt, text) ==
    add_message(add_message(msgs, max_length, "user", prompt), max_length, "assistant", text)

\* History with the prompt stored although the model call failed
History_PromptOnError(msgs, max_length, prompt, out) ==
    IF Raises(out) THEN add_message(msgs, max_length, "user", prompt)
    ELSE Remembered(msgs, max_length, prompt, out.val)

\* the history after a generate_response whose model call had outcome out:
\* both add_message calls come after the model call inside the try block
History(msgs, max_length, prompt, out) ==
    IF Raises(out) THEN msgs ELSE Remembered(msgs, max_length, prompt, out.val)

\* Generated with a failed model call answered by an empty text
Generated_EmptyOnError(out) == IF Raises(out) THEN Val(Raw("")) ELSE out

\* what generate_response gives its caller when the model call had outcome out:
\* the generated text, or the error re-raised
Generated(out) == out

\* the calls of client.chat.completions.create one generate_response makes,
\* each with its outcome: the try block holds one call and no loop
Invocations(out) == <<out>>

\* what the environment of the LLM client offers
Prompts == {Raw("What is on my calendar?"), Raw("Summarize my inbox")}
SystemMessages == {PyNone, Raw(""), Raw("You are a helpful assistant.")}
Completions == {Raw("Sure! I can help with that."), json_dumps(JList)}
ModelOutcomes == {Exc(LLMError)} \cup {Val(t) : t \in Completions}
Roles == {"system", "user", "assistant"}

\* how many appends a run explores: enough to overflow the history
AppendLimit ==
    IF max_context_length = DefaultMaxContextLength
    THEN DefaultMaxContextLength + MaxEvicted
    ELSE MaxAppends

\* context.add_message(role, content), called on the context directly
AddMessage ==
    /\ Len(appended) < MaxAppends
    /\ \E role \in Roles, content \in Prompts :
         /\ messages' = add_message(messages, max_context_length, role, content)
         /\ appended' = Append(appended, Message(role, content))
         /\ call' = [op |-> "add_message"]
    /\ UNCHANGED <<max_context_length, orchVars, authVars, raceVars>>

\* GroqLLMClient.generate_response(prompt, system_message): the model call
\* returns a text or raises; the raise is logged and re-raised
GenerateResponse ==
    /\ Len(appended) + 2 <= AppendLimit
    /\ \E prompt \in Prompts, system_message \in SystemMessages, out \in ModelOutcomes :
         /\ messages' = History(messages, max_context_length, prompt, out)
         /\ appended' = IF Raises(out) THEN appended
                        ELSE appended \o <<Message("user", prompt), Message("assistant", out.val)>>
         /\ call' = [op |-> "generate_response", prompt |-> prompt,
                     system_message |-> system_message,
                     sent |-> RequestMessages(messages, prompt, system_message),
                     before |-> messages, outcome |-> out,
                     invocations |-> Invocations(out),
                     follows |-> IF call.op = "reset_context" THEN call ELSE [op |-> call.op],
                     returned |-> Generated(out)]
    /\ UNCHANGED <<max_context_length, orchVars, authVars, raceVars>>

(***************************************************************************)
(* generate_response called from two threads on one GroqLLMClient.  The    *)
(* interpreter switches threads between bytecodes: list.append is one      *)
(* step, and the test len(self.messages) > N, the slice self.messages[-N:] *)
(* and the assignment to self.messages are three.                          *)
(***************************************************************************)
Threads == {"thread-1", "thread-2"}

\* the prompt thread t passes and the text the model answers it with
ThreadPrompt(t) == IF t = "thread-1" THEN Raw("What is on my calendar?") ELSE Raw("Summarize my inbox")
ThreadAnswer(t) == IF t = "thread-1" THEN Raw("You have two meetings.") ELSE Raw("Three unread mails.")

\* a thread outside generate_response: todo holds the add_message calls
\* still to make, slice the list self.messages[-N:] built
Idle == [pc |-> "idle", todo |-> <<>>, slice |-> <<>>]

\* Truncated keeping the oldest messages
Truncated_Oldest(msgs, max_length) ==
    SubSeq(msgs, 1, IF max_length < Len(msgs) THEN max_length ELSE Len(msgs))

\* self.messages[-self.max_context_length:]
Truncated(msgs, max_length) == SliceFrom(msgs, -max_length)

\* where a thread goes when an add_message call has returned
AfterAdd(th) ==
    [pc |-> IF Tail(th.todo) = <<>> THEN "return" ELSE "append",
     todo |-> Tail(th.todo), slice |-> <<>>]

\* thread t enters generate_response, inside the caller's lock when there is
\* one, and builds the request from the history
RaceBegin(t) ==
    /\ threads[t].pc = "idle"
    /\ lock \in {"none", "free"}
    /\ lock' = IF lock = "none" THEN "none" ELSE t
    /\ threads' = [threads EXCEPT ![t].pc = "model"]
    /\ UNCHANGED <<orchVars, llmVars, authVars>>

\* the model call of thread t returns a text or raises; the raise leaves
\* the try block before the first add_message
RaceModel(t) ==
    /\ threads[t].pc = "model"
    /\ \E out \in {Exc(LLMError), Val(ThreadAnswer(t))} :
         threads' = [threads EXCEPT ![t] =
                        IF Raises(out) THEN [Idle EXCEPT !.pc = "return"]
                        ELSE [Idle EXCEPT !.pc = "append",
                                          !.todo = <<Message("user", ThreadPrompt(t)),
                                                     Message("assistant", out.val)>>]]
    /\ UNCHANGED <<lock, orchVars, llmVars, authVars>>

\* add_message: self.messages.append(...)
RaceAppend(t) ==
    /\ threads[t].pc = "append"
    /\ messages' = Append(messages, Head(threads[t].todo))
    /\ appended' = Append(appended, Head(threads[t].todo))
    /\ threads' = [threads EXCEPT ![t].pc = "check"]
    /\ UNCHANGED <<lock, max_context_length, call, orchVars, authVars>>

\* add_message: if len(self.messages) > self.max_context_length
RaceCheck(t) ==
    /\ threads[t].pc = "check"
    /\ threads' = [threads EXCEPT ![t] =
                      IF Len(messages) > max_context_length
                      THEN [threads[t] EXCEPT !.pc = "slice"]
                      ELSE AfterAdd(threads[t])]
    /\ UNCHANGED <<lock, orchVars, llmVars, authVars>>

\* add_message: the right-hand side self.messages[-self.max_context_length:]
RaceSlice(t) ==
    /\ threads[t].pc = "slice"
    /\ threads' = [threads EXCEPT ![t].pc = "store",
                                   ![t].slice = Truncated(messages, max_context_length)]
    /\ UNCHANGED <<lock, orchVars, llmVars, authVars>>

\* add_message: self.messages = <the slice>, whatever the list now holds
RaceStore(t) ==
    /\ threads[t].pc = "store"
    /\ messages' = threads[t].slice
    /\ threads' = [threads EXCEPT ![t] = AfterAdd(threads[t])]
    /\ UNCHANGED <<lock, max_context_length, appended, call, orchVars, authVars>>

\* generate_response returns or re-raises, and the caller releases its lock
RaceReturn(t) ==
    /\ threads[t].pc = "return"
    /\ threads' = [threads EXCEPT ![t].pc = "done"]
    /\ lock' = IF lock = t THEN "free" ELSE lock
    /\ UNCHANGED <<orchVars, llmVars, authVars>>

\* a text whose characters matter: the sequence of its characters
Chars(seq) == [chars |-> seq]

\* text[:stop] with Python's reading of stop: a negative stop counts from the end
SliceTo(text, stop) ==
    LET n == Len(text.chars)
        to == IF stop < 0 THEN (IF n + stop < 0 THEN 0 ELSE n + stop)
              ELSE (IF stop > n THEN n ELSE stop)
    IN  Chars(SubSeq(text.chars, 1, to))

\* the system message of summarize_text
SummaryInstruction(max_length) ==
    [template |-> "Summarize the following text concisely in under {max_length} characters:",
     max_length |-> max_length]

\* summarize_text with the model's answer returned as it is
summarize_text_Uncut(max_length, summary) == summary

\* summarize_text(text, max_length), given what generate_response gave
summarize_text(max_length, summary) ==
    IF Raises(summary) THEN summary ELSE Val(SliceTo(summary.val, max_length))

\* the summaries the model may answer with: empty, short, long
Summaries == {Chars(<<>>), Chars(<<"O", "K">>), Chars(<<"D", "o", "n", "e", "!">>)}
SummaryOutcomes == {Exc(LLMError)} \cup {Val(t) : t \in Summaries}

\* GroqLLMClient.summarize_text(text, max_length)
SummarizeText ==
    /\ Len(appended) + 2 <= MaxAppends
    /\ \E text \in Prompts, max_length \in 0..MaxSummaryLength, out \in SummaryOutcomes :
         /\ messages' = History(messages, max_context_length, text, out)
         /\ appended' = IF Raises(out) THEN appended
                        ELSE appended \o <<Message("user", text), Message("assistant", out.val)>>
         /\ call' = [op |-> "summarize_text", text |-> text, max_length |-> max_length,
                     sent |-> RequestMessages(messages, text, SummaryInstruction(max_length)),
                     outcome |-> out,
                     returned |-> summarize_text(max_length, Generated(out))]
    /\ UNCHANGED <<max_context_length, orchVars, authVars, raceVars>>

\* GroqLLMClient.reset_context
ResetContext ==
    /\ messages' = clear(messages)
    /\ appended' = <<>>
    /\ call' = [op |-> "reset_context", cleared |-> Len(messages)]
    /\ UNCHANGED <<max_context_length, orchVars, authVars, raceVars>>

(***************************************************************************)
(* The orchestrator on its GroqLLMClient, request after request: every     *)
(* generate_response call of integration.py goes through the one history   *)
(* of self.llm_client, and integration.py never calls reset_context.       *)
(***************************************************************************)
SessionRequests == Requests \cup {Raw("what is on my calendar tomorrow?")}

\* the system messages of the extraction call and of the decomposition call
ExtractionSystem == Raw("You are an intent extraction assistant for a Google Workspace agent.")
DecompositionSystem == Raw("You are a workflow decomposition assistant.")

\* the record of one generate_response call made for request
SessionCall(op, request, prompt, system_message, out) ==
    [op |-> op, request |-> request, prompt |-> prompt,
     sent |-> RequestMessages(messages, prompt, system_message),
     before |-> messages, outcome |-> out]

\* process_natural_language_request(request) up to the return of
\* _extract_intent: generate_response(prompt=request, system_message=...)
SessionExtract ==
    /\ Len(appended) < 2 * MaxSessionCalls
    /\ \E request \in SessionRequests, out \in LLMOutcomes :
         /\ messages' = History(messages, max_context_length, request, out)
         /\ appended' = IF Raises(out) THEN appended
                        ELSE appended \o <<Message("user", request), Message("assistant", out.val)>>
         /\ call' = SessionCall("extract", request, request, ExtractionSystem, out)
    /\ UNCHANGED <<max_context_length, orchVars, authVars, raceVars>>

\* the same request once its intent is routed to the planner: the
\* decomposition call of _handle_multi_service_request
SessionBreakdown ==
    /\ Len(appended) < 2 * MaxSessionCalls
    /\ call.op = "extract"
    /\ ~Raises(call.outcome)
    /\ LET r == extract_intent(call.request, call.outcome)
       IN  /\ ~Raises(r)
           /\ IsMulti(r.val)
           /\ \E out \in LLMOutcomes :
                /\ messages' = History(messages, max_context_length, BreakdownPrompt(r.val), out)
                /\ appended' = IF Raises(out) THEN appended
                               ELSE appended \o <<Message("user", BreakdownPrompt(r.val)),
                                                  Message("assistant", out.val)>>
                /\ call' = SessionCall("breakdown", call.request, BreakdownPrompt(r.val),
                                       DecompositionSystem, out)
    /\ UNCHANGED <<max_context_length, orchVars, authVars, raceVars>>

(***************************************************************************)
(* auth.py: GoogleWorkspaceAuth.                                           *)
(***************************************************************************)
\* a Credentials object as authenticate reads it
Credential(valid, expired, refresh_token) ==
    [valid |-> valid, expired |-> expired, refresh_token |-> refresh_token]

\* the credentials the library hands out: valid means a token that is not
\* expired, so no credential is both valid and expired
CredentialStates ==
    { Credential(v, e, r) : v \in BOOLEAN, e \in BOOLEAN, r \in BOOLEAN } \
        { Credential(TRUE, TRUE, r) : r \in BOOLEAN }

NoFile == [nofile |-> TRUE]
Garbage == [garbage |-> TRUE]
Stored(c) == [stored |-> c]

\* what the token file may hold: nothing, a text that is no token, a token
TokenFiles == {NoFile, Garbage} \cup {Stored(c) : c \in CredentialStates}

ValueError == Exception("ValueError", <<Raw("Expecting value: line 1 column 1 (char 0)")>>)
RefreshError == Exception("RefreshError", <<Raw("invalid_grant")>>)
FlowError == Exception("FileNotFoundError", <<Raw("No such file or directory")>>)

\* flow.run_local_server(port=0): the user grants access, or the flow fails
FlowOutcomes == {Exc(FlowError)} \cup {Val(Credential(TRUE, FALSE, r)) : r \in BOOLEAN}
\* credentials.refresh(Request())
RefreshOutcomes == {Exc(RefreshError), Val(Credential(TRUE, FALSE, TRUE))}

AuthState(file, cached) == [token_file |-> file, credentials |-> cached]

\* the provider after a call, with what the call gave and whether it ran the
\* interactive flow or a refresh
AuthResult(a, outcome, flow, refreshed) ==
    [state |-> a, outcome |-> outcome, flow |-> flow, refreshed |-> refreshed]

\* authenticate() on provider state a, the flow and the refresh having the
\* outcomes given
authenticate(a, flow, refresh) ==
    IF a.token_file = Garbage THEN AuthResult(a, Exc(ValueError), FALSE, FALSE)
    ELSE LET loaded == IF a.token_file = NoFile THEN PyNone ELSE a.token_file.stored
             kept == loaded # PyNone /\ loaded.valid
             refreshes == kept /\ loaded.expired /\ loaded.refresh_token
             got == IF refreshes THEN refresh
                    ELSE IF kept THEN Val(loaded)
                    ELSE flow
         IN  IF Raises(got) THEN AuthResult(a, got, ~kept, FALSE)
             ELSE AuthResult(AuthState(Stored(got.val), got.val), got, ~kept, refreshes)

\* get_credentials()
get_credentials(a, flow, refresh) ==
    IF a.credentials = PyNone
    THEN LET r == authenticate(a, flow, refresh)
         IN  IF Raises(r.outcome) THEN r
             ELSE AuthResult(r.state, Val(r.state.credentials), r.flow, r.refreshed)
    ELSE AuthResult(a, Val(a.credentials), FALSE, FALSE)

\* revoke_credentials with the cached credential kept
revoke_credentials_KeepCached(a) == AuthState(NoFile, a.credentials)

\* revoke_credentials()
revoke_credentials(a) ==
    AuthState(IF a.token_file # NoFile THEN NoFile ELSE a.token_file, PyNone)

Provider == AuthState(token_file, credentials)

\* the last call, as the next call's record keeps it
Previous == IF auth_call.op = "revoke_credentials"
            THEN [op |-> auth_call.op, had_file |-> auth_call.had_file,
                  had_cached |-> auth_call.had_cached]
            ELSE [op |-> auth_call.op]

Authenticate ==
    /\ \E flow \in FlowOutcomes, refresh \in RefreshOutcomes :
         LET r == authenticate(Provider, flow, refresh)
         IN  /\ token_file' = r.state.token_file
             /\ credentials' = r.state.credentials
             /\ auth_call' = [op |-> "authenticate", outcome |-> r.outcome, flow |-> r.flow,
                              refreshed |-> r.refreshed, found |-> token_file,
                              follows |-> Previous]
    /\ UNCHANGED <<clients, orchVars, llmVars, raceVars>>

GetCredentials ==
    /\ \E flow \in FlowOutcomes, refresh \in RefreshOutcomes :
         LET r == get_credentials(Provider, flow, refresh)
         IN  /\ token_file' = r.state.token_file
             /\ credentials' = r.state.credentials
             /\ auth_call' = [op |-> "get_credentials", outcome |-> r.outcome, flow |-> r.flow,
                              follows |-> Previous]
    /\ UNCHANGED <<clients, orchVars, llmVars, raceVars>>

RevokeCredentials ==
    /\ LET a == revoke_credentials(Provider)
       IN  /\ token_file' = a.token_file
           /\ credentials' = a.credentials
    /\ auth_call' = [op |-> "revoke_credentials", had_file |-> token_file # NoFile,
                     had_cached |-> credentials # PyNone, follows |-> Previous]
    /\ UNCHANGED <<clients, orchVars, llmVars, raceVars>>

\* WorkspaceIntegration.__init__: every client is constructed with
\* credentials.get_credentials(); the first call may authenticate, the four
\* others find the cached credential
ConstructClients ==
    /\ \E flow \in FlowOutcomes, refresh \in RefreshOutcomes :
         LET r == get_credentials(Provider, flow, refresh)
         IN  /\ token_file' = r.state.token_file
             /\ credentials' = r.state.credentials
             /\ clients' = IF Raises(r.outcome) THEN clients ELSE r.outcome.val
             /\ auth_call' = [op |-> "construct", outcome |-> r.outcome, flow |-> r.flow,
                              follows |-> Previous]
    /\ UNCHANGED <<orchVars, llmVars, raceVars>>

\* a constructed client runs one operation with the credential it holds; the
\* provider is not consulted
ClientOperation ==
    /\ clients # PyNone
    /\ \E out \in ClientOutcomes :
         auth_call' = [op |-> "client_call", credential |-> clients,
                       outcome |-> ClientCall("gmail_client", "list_items", Empty, out),
                       follows |-> Previous]
    /\ UNCHANGED <<token_file, credentials, clients, orchVars, llmVars, raceVars>>

(***************************************************************************)
(* Specifications.                                                         *)
(***************************************************************************)
\* a fresh GroqLLMClient: ConversationContext() with its defaults
InitLLM ==
    /\ messages = <<>>
    /\ max_context_length = DefaultMaxContextLength
    /\ appended = <<>>
    /\ call = [op |-> "init"]

InitOrchestrator ==
    /\ stack = <<>>
    /\ ret = Pending

\* a fresh GoogleWorkspaceAuth with no token file, and no client constructed
InitAuth ==
    /\ token_file = NoFile
    /\ credentials = PyNone
    /\ clients = PyNone
    /\ auth_call = [op |-> "init"]

\* no thread has called generate_response, and the caller supplies no lock
InitThreads ==
    /\ threads = [t \in Threads |-> Idle]
    /\ lock = "none"

\* the orchestrator with the language model and the clients as environment
Init == InitOrchestrator /\ InitLLM /\ InitAuth /\ InitThreads

\* a ConversationContext(max_context_length = N) on its own
InitContext ==
    /\ InitOrchestrator
    /\ messages = <<>>
    /\ max_context_length \in 0..MaxCtx
    /\ appended = <<>>
    /\ call = [op |-> "init"]
    /\ InitAuth
    /\ InitThreads

\* the value a model answer gives the field name of details
SampleValue(name) == IF name = "max_results" THEN JNum(5) ELSE JS(name)

\* details holding the first k parameters of a branch and nothing else
DetailsOf(params, k) ==
    JObj([i \in 1..k |-> params[i].name],
         [n \in {params[i].name : i \in 1..k} |-> SampleValue(n)])

\* a service name and an action no handler knows
UnknownServices == {"fax", "", "Email"}
UnknownActions == {"archive", ""}

\* intents the model may answer the extraction call with, service by service:
\* every known (service, action) pair with some, all or none of its fields,
\* with a field no branch reads, or with no details at all; known services
\* with an action their handler does not know or with none; unknown services
RouterIntents ==
    UNION { UNION { { Intent(JS(x), JS(Handlers[x].actions[i].action),
                             DetailsOf(Handlers[x].actions[i].params, k)) :
                        k \in 0..Len(Handlers[x].actions[i].params) }
                    \cup { Intent(JS(x), JS(Handlers[x].actions[i].action),
                                  JObj(<<"priority">>, ("priority" :> JS("high")))),
                           Intent(JS(x), JS(Handlers[x].actions[i].action), JS("to the team")),
                           JObj(<<"service", "action">>,
                                ("service" :> JS(x)) @@
                                ("action" :> JS(Handlers[x].actions[i].action))) } :
                    i \in DOMAIN Handlers[x].actions } :
            x \in Services }
      \cup { Intent(JS(x), JS(a), EmptyDict) : x \in Services, a \in UnknownActions }
      \cup { JObj(<<"service">>, ("service" :> JS(x))) : x \in Services }
      \cup { Intent(JS(x), JS("send"), MailDetails) : x \in UnknownServices }

\* process_natural_language_request just after _extract_intent returned one
\* of RouterIntents
InitRouter ==
    /\ \E request \in Requests, intent \in RouterIntents :
         stack = << [ProcessFrame(request) EXCEPT !.pc = "route",
                                                  !.response = json_dumps(intent),
                                                  !.intent = intent] >>
    /\ ret = Pending
    /\ InitLLM
    /\ InitAuth
    /\ InitThreads

NextRouter ==
    \/ RouteService
    \/ ReturnProcess

\* the router and the five handlers on every intent of RouterIntents
SpecRouter == InitRouter /\ [][NextRouter]_vars

\* a fresh GoogleWorkspaceAuth over any token file
InitProvider ==
    /\ InitOrchestrator
    /\ InitLLM
    /\ token_file \in TokenFiles
    /\ credentials = PyNone
    /\ clients = PyNone
    /\ auth_call = [op |-> "init"]
    /\ InitThreads

NextProvider ==
    \/ Authenticate
    \/ GetCredentials
    \/ RevokeCredentials
    \/ ConstructClients
    \/ ClientOperation

\* the credential provider and the clients constructed from it
SpecProvider == InitProvider /\ [][NextProvider]_vars

\* a ConversationContext(max_context_length = N) shared by two threads, with
\* or without a lock around each generate_response call
InitRace ==
    /\ InitOrchestrator
    /\ messages = <<>>
    /\ max_context_length \in 0..MaxCtx
    /\ appended = <<>>
    /\ call = [op |-> "init"]
    /\ InitAuth
    /\ threads = [t \in Threads |-> Idle]
    /\ lock \in {"none", "free"}

NextRace ==
    \/ \E t \in Threads : RaceBegin(t)
    \/ \E t \in Threads : RaceModel(t)
    \/ \E t \in Threads : RaceAppend(t)
    \/ \E t \in Threads : RaceCheck(t)
    \/ \E t \in Threads : RaceSlice(t)
    \/ \E t \in Threads : RaceStore(t)
    \/ \E t \in Threads : RaceReturn(t)

\* two concurrent generate_response calls on one client
SpecRace == InitRace /\ [][NextRace]_vars

NextSession ==
    \/ SessionExtract
    \/ SessionBreakdown

\* the model calls of one orchestrator over several requests
SpecSession == Init /\ [][NextSession]_vars

NextDefault ==
    \/ GenerateResponse
    \/ ResetContext

\* a GroqLLMClient with the default history length, used through
\* generate_response and reset_context only
SpecDefault == Init /\ [][NextDefault]_vars

NextContext ==
    \/ AddMessage
    \/ GenerateResponse
    \/ SummarizeText
    \/ ResetContext

SpecContext == InitContext /\ [][NextContext]_vars

Next ==
    \/ Start
    \/ ExtractIntent
    \/ RouteService
    \/ RouteMulti
    \/ Breakdown
    \/ LoopCall
    \/ LoopEnd
    \/ ReturnProcess
    \/ ReturnMulti

Spec == Init /\ [][Next]_vars


(***************************************************************************)
(* Properties.                                                             *)
(***************************************************************************)
Range(seq) == {seq[i] : i \in DOMAIN seq}
IsSuffix(s, t) == Len(s) <= Len(t) /\ s = SubSeq(t, Len(t) - Len(s) + 1, Len(t))

\* the activations of process_natural_language_request / of the planner on the stack
ProcessFrames == {stack[i] : i \in {j \in DOMAIN stack : stack[j].fn = "process"}}
MultiFrames == {stack[i] : i \in {j \in DOMAIN stack : stack[j].fn = "multi"}}

\* C1: process_natural_language_request never raises to its caller: no
\* activation ends with an exception, and an exception that reached its try
\* block (from intent extraction, from a handler or from the planner) has
\* become {status: 'error', message: str(e)}.
C1_NeverRaises ==
    /\ ~Raises(ret)
    /\ \A f \in ProcessFrames :
         f.pc = "done" =>
            /\ ~Raises(f.outcome)
            /\ IsException(f.caught) =>
                  f.outcome = Val([status |-> "error", message |-> f.caught.text])

\* a request has returned to the caller after the mail client's create raised
C1_Witness ==
    /\ stack = <<>>
    /\ ret = Val([status |-> "error",
                  message |-> HttpError("gmail_client", "create_item").text])

\* C2: whatever process_natural_language_request returns is a mapping whose
\* status is 'success' or 'error', never None.
C2_AlwaysResult ==
    ret # Pending =>
        /\ ~Raises(ret)
        /\ "status" \in DOMAIN ret.val
        /\ ret.val.status \in {"success", "error"}

\* C3: when the model's answer to the extraction call does not parse,
\* _extract_intent returns exactly {service: 'multi', action: 'interpret',
\* details: request}.
C3_FallbackIntent ==
    \A f \in ProcessFrames :
        (f.response # NoText /\ Raises(json_loads(f.response))) =>
            f.intent = Intent(JS("multi"), JS("interpret"), JStr(f.request))

\* _extract_intent has just returned after an answer in free text
C3_Witness ==
    \E f \in ProcessFrames :
        f.pc = "route" /\ f.response = Raw("Sure! I can help with that.")

\* C4: every intent _extract_intent returns has service and action populated.
C4_IntentPopulated ==
    \A f \in ProcessFrames :
        f.intent # NoValue =>
            /\ IsDict(f.intent)
            /\ {"service", "action"} \subseteq DOMAIN f.intent.obj

\* a decomposition that is a mapping of service names to mappings
WellFormed(actions) ==
    IsDict(actions) /\ \A k \in DOMAIN actions.obj : IsDict(actions.obj[k])

C6_RoutesEntryIntent ==
    \A f \in MultiFrames :
        \A k \in DOMAIN f.results :
            k \in Services =>
                f.results[k] \in
                    { ProcessTry(RouteSingle(ServiceIntent(k, f.actions.obj[k]), out)).val :
                        out \in ClientOutcomes }

\* C7: a planner that ends with status 'success' returns results whose keys
\* are exactly the top-level names of the decomposition.
C7_BundleKeys ==
    \A f \in MultiFrames :
        (f.pc = "done" /\ ~Raises(f.outcome) /\ f.outcome.val.status = "success") =>
            /\ DOMAIN f.outcome.val = {"status", "results"}
            /\ DOMAIN f.outcome.val.results = Range(f.actions.keys)

\* a bundle of two entries has ended with both entries successful
C7_Witness ==
    \E f \in MultiFrames :
        /\ f.pc = "done"
        /\ ~Raises(f.outcome)
        /\ f.outcome.val.status = "success"
        /\ DOMAIN f.outcome.val.results = {"email", "calendar"}
        /\ \A k \in {"email", "calendar"} : IsSuccess(f.outcome.val.results[k])

\* C8: when the decomposition answer does not parse, the planner ends at
\* once with {status: 'error', message: 'Multi-service request processing
\* failed: ...'}: no results key, no entry run, no fallback.
C8_DecompositionFailure ==
    \A f \in MultiFrames :
        (f.breakdown # NoText /\ Raises(json_loads(f.breakdown))) =>
            /\ f.pc = "done"
            /\ ~Raises(f.outcome)
            /\ DOMAIN f.outcome.val = {"status", "message"}
            /\ f.outcome.val.status = "error"
            /\ Head(f.outcome.val.message) = Raw("Multi-service request processing failed: ")
            /\ f.results = Empty
            /\ f.actions = NoValue

\* the planner has ended after a decomposition answer in free text
C8_Witness ==
    \E f \in MultiFrames :
        f.pc = "done" /\ f.breakdown = Raw("Sure! I can help with that.")

\* C9: once more than N messages were appended to a context with max history
\* N, the history is exactly the N most recent of them, in order.
C9_HistoryBound ==
    Len(appended) > max_context_length =>
        messages = SubSeq(appended, Len(appended) - max_context_length + 1, Len(appended))

\* C10: a successful generate_response returns the model's text and leaves
\* the history it found followed by the user prompt and then the answer, cut
\* at the front only; the system instruction is not stored.
C10_GenerateAppends ==
    (call.op = "generate_response" /\ ~Raises(call.outcome)) =>
        LET user == [role |-> "user", content |-> call.prompt]
            assistant == [role |-> "assistant", content |-> call.outcome.val]
            expected == call.before \o <<user, assistant>>
            n == Len(messages)
        IN  /\ call.returned = Val(call.outcome.val)
            /\ IsSuffix(messages, expected)
            /\ Len(expected) <= max_context_length => messages = expected
            /\ max_context_length >= 1 => (n >= 1 /\ messages[n] = assistant)
            /\ max_context_length >= 2 => (n >= 2 /\ messages[n - 1] = user)
            /\ \A i \in DOMAIN messages :
                 messages[i] # [role |-> "system", content |-> call.system_message]

\* a generate_response with a system instruction has succeeded on a full
\* history, so that the oldest entries were evicted
C10_Witness ==
    /\ call.op = "generate_response"
    /\ ~Raises(call.outcome)
    /\ Truthy(call.system_message)
    /\ max_context_length >= 2
    /\ Len(call.before) = max_context_length
    /\ Len(messages) = max_context_length

\* C11: when the model call fails, generate_response raises that same error
\* to its caller, after one model invocation and no more, and returns no value
\* in its place.
C11_ReraisesOnce ==
    (call.op = "generate_response" /\ Raises(call.outcome)) =>
        /\ call.returned = call.outcome
        /\ call.invocations = <<call.outcome>>

\* a generate_response has ended with the connection error of its model call
C11_Witness ==
    /\ call.op = "generate_response"
    /\ call.returned = Exc(LLMError)
    /\ Len(call.invocations) = 1

\* C12: reset_context leaves the history empty whatever it held, and the
\* generate_response that follows a reset sends the model the system
\* instruction (if one is given) and the new prompt, and nothing else.
C12_ResetClears ==
    /\ call.op = "reset_context" => messages = <<>>
    /\ (call.op = "generate_response" /\ call.follows.op = "reset_context") =>
          call.sent = (IF call.system_message \in {PyNone, Raw("")} THEN <<>>
                       ELSE <<[role |-> "system", content |-> call.system_message]>>)
                          \o <<[role |-> "user", content |-> call.prompt]>>

\* a generate_response has followed a reset that emptied a history of at least
\* two messages
C12_Witness ==
    /\ call.op = "generate_response"
    /\ call.follows.op = "reset_context"
    /\ call.follows.cleared >= 2

\* C13: for every answer of the model and every max_length >= 0,
\* summarize_text returns at most max_length characters, and they are the
\* first characters of the answer.
C13_SummaryPrefix ==
    (call.op = "summarize_text" /\ ~Raises(call.outcome)) =>
        LET answer == call.outcome.val.chars
        IN  /\ ~Raises(call.returned)
            /\ Len(call.returned.val.chars) <= call.max_length
            /\ Len(call.returned.val.chars) <= Len(answer)
            /\ call.returned.val.chars = SubSeq(answer, 1, Len(call.returned.val.chars))
            /\ Len(answer) <= call.max_length => call.returned.val.chars = answer

\* summarize_text has cut an answer of five characters down to its first three
C13_Witness ==
    /\ call.op = "summarize_text"
    /\ call.outcome = Val(Chars(<<"D", "o", "n", "e", "!">>))
    /\ call.max_length = 3
    /\ call.returned = Val(Chars(<<"D", "o", "n">>))

\* the default the handlers give a field that details does not hold
DocumentedDefault(name) == IF name = "max_results" THEN JNum(10) ELSE JS("")

\* C14: for a recognized (service, action) pair whose client operation
\* returns v, the handler returns {status: 'success', result: v}; the
\* operation is called with every field details holds as details holds it,
\* and with "" for a missing to, subject or body and 10 for a missing
\* max_results.
C14_HandlerSuccess ==
    \A f \in ProcessFrames :
        (f.pc = "done" /\ f.calls # <<>> /\ ~Raises(f.calls[1].outcome)) =>
            LET c == f.calls[1]
                details == Get(f.intent, "details", EmptyDict)
            IN  /\ Len(f.calls) = 1
                /\ f.outcome = Val([status |-> "success", result |-> c.outcome.val])
                /\ \A n \in DOMAIN c.args :
                     /\ n \in DOMAIN details.obj => c.args[n] = details.obj[n]
                     /\ (n \notin DOMAIN details.obj
                            /\ n \in {"to", "subject", "body", "max_results"}) =>
                          c.args[n] = DocumentedDefault(n)

\* a mail has been sent for details that hold `to` only: subject and body
\* went to the client as empty strings
C14_Witness ==
    \E f \in ProcessFrames :
        /\ f.pc = "done"
        /\ "status" \in DOMAIN f.outcome.val /\ f.outcome.val.status = "success"
        /\ f.calls # <<>>
        /\ f.calls[1].client = "gmail_client" /\ f.calls[1].op = "create_item"
        /\ f.calls[1].args = [to |-> JS("to"), subject |-> JS(""), body |-> JS("")]

\* an intent whose service is a string naming none of the six services
IsUnsupported(intent) ==
    /\ IsDict(intent)
    /\ "service" \in DOMAIN intent.obj
    /\ IsStr(intent.obj["service"])
    /\ intent.obj["service"] \notin {JS(x) : x \in Services \cup {"multi"}}

\* C15: routing an intent whose service is a string other than the six known
\* names ends the activation in that step with {status: 'error', message:
\* 'Unsupported service: <name>'}: no client operation is invoked and no
\* planner activation is pushed.
C15_UnsupportedService ==
    [][ (At("process", "route") /\ IsUnsupported(Top.intent)) =>
          /\ Len(stack') = Len(stack)
          /\ stack'[Len(stack)].pc = "done"
          /\ stack'[Len(stack)].calls = <<>>
          /\ stack'[Len(stack)].outcome =
                Val([status |-> "error",
                     message |-> <<Raw("Unsupported service: "),
                                   Top.intent.obj["service"].str>>]) ]_vars

\* an activation has ended on the service name 'fax'
C15_Witness ==
    \E f \in ProcessFrames :
        /\ f.pc = "done"
        /\ IsUnsupported(f.intent)
        /\ f.outcome = Val([status |-> "error",
                            message |-> <<Raw("Unsupported service: "), Raw("fax")>>])

\* C16: an intent for one of the five services whose action is none of the
\* handler's actions ends as {status: 'error', message: <non-empty>}.
C16_UnknownActionError ==
    \A f \in ProcessFrames :
        (/\ f.pc = "done"
         /\ IsDict(f.intent)
         /\ "service" \in DOMAIN f.intent.obj
         /\ \E x \in Services :
              /\ f.intent.obj["service"] = JS(x)
              /\ \A i \in DOMAIN Handlers[x].actions :
                   Get(f.intent, "action", JS("")) # JS(Handlers[x].actions[i].action)) =>
            /\ ~Raises(f.outcome)
            /\ DOMAIN f.outcome.val = {"status", "message"}
            /\ f.outcome.val.status = "error"
            /\ f.outcome.val.message # <<>>

\* C17: after revoke_credentials the token file does not exist and the
\* cached credential is None, whatever the provider held before; revoking
\* again changes nothing.
C17_RevokeIdempotent ==
    LET once == revoke_credentials(Provider)
    IN  /\ once = AuthState(NoFile, PyNone)
        /\ revoke_credentials(once) = once
        /\ auth_call.op = "revoke_credentials" => Provider = AuthState(NoFile, PyNone)

\* revoke_credentials has run twice in a row, the first time on a provider
\* with a token file and a cached credential
C17_Witness ==
    /\ auth_call.op = "revoke_credentials"
    /\ ~auth_call.had_file /\ ~auth_call.had_cached
    /\ auth_call.follows.op = "revoke_credentials"
    /\ auth_call.follows.had_file /\ auth_call.follows.had_cached

\* C18: the get_credentials that follows a revocation raises or goes through
\* a new authorization flow, and a client operation that follows a
\* revocation, run by a client constructed before it, fails.
C18_RevokedFailsLoudly ==
    /\ (auth_call.op = "get_credentials" /\ auth_call.follows.op = "revoke_credentials") =>
          (Raises(auth_call.outcome) \/ auth_call.flow)
    /\ (auth_call.op = "client_call" /\ auth_call.follows.op = "revoke_credentials") =>
          Raises(auth_call.outcome)

\* the planner activations of the request being handled
PlannerDepth == Cardinality({i \in DOMAIN stack : stack[i].fn = "multi"})

\* C19: during a request the planner is never entered while a planner
\* activation of that request is still active: at most one planner and at
\* most two activations of process_natural_language_request are on the stack.
C19_SingleLevel ==
    /\ PlannerDepth <= 1
    /\ Depth <= 2

BranchOf(service, action) ==
    {Handlers[service].actions[i] :
        i \in {j \in DOMAIN Handlers[service].actions :
                 action = JS(Handlers[service].actions[j].action)}}

C22_ModelFailurePropagates ==
    /\ \A f \in MultiFrames :
         (f.pc = "done" /\ f.breakdown = NoText) => f.outcome = Exc(LLMError)
    /\ \A f \in ProcessFrames :
         (f.pc = "done" /\ f.caught = LLMError) =>
            f.outcome = Val([status |-> "error", message |-> LLMError.text])

\* a planner has ended by raising the error of its decomposition call
C22_Witness ==
    \E f \in MultiFrames : f.pc = "done" /\ f.outcome = Exc(LLMError)

\* C23: for every max_context_length N >= 0, N = 0 and N = 1 included, the
\* history holds at most N entries whenever add_message has returned.
C23_AtMostN ==
    call.op \in {"add_message", "generate_response", "summarize_text"} =>
        Len(messages) <= max_context_length

\* the messages a generate_response is to send: the system instruction when
\* one is given, the history as the call found it, the prompt as a user message
ExpectedRequest(c) ==
    (IF c.system_message \in {PyNone, Raw("")} THEN <<>>
     ELSE <<[role |-> "system", content |-> c.system_message]>>)
        \o c.before \o <<[role |-> "user", content |-> c.prompt]>>

\* C24: generate_response sends the system instruction (only when one is
\* given), then the history as it was before the call, then the new prompt
\* as the last, user, message and nowhere else on its own account; the
\* sequence has at most N + 2 messages.
C24_RequestSequence ==
    call.op = "generate_response" =>
        /\ call.sent = ExpectedRequest(call)
        /\ call.sent[Len(call.sent)] = [role |-> "user", content |-> call.prompt]
        /\ Len(call.sent) <= max_context_length + 2

\* the thread whose prompt or answer a message holds
OwnerOf(m) == CHOOSE t \in Threads : m.content \in {ThreadPrompt(t), ThreadAnswer(t)}

\* every user prompt that has a successor in the history is followed by the
\* answer to it
PairsIntact ==
    \A i \in 1..(Len(messages) - 1) :
        messages[i].role = "user" =>
            messages[i + 1] = Message("assistant", ThreadAnswer(OwnerOf(messages[i])))

\* C25: when the two generate_response calls are serialized by the caller's
\* lock, every user prompt in the history is followed by its own answer and
\* the history is the tail of what was appended, so no appended message is
\* lost by the truncation step; the witness is an unserialized run that
\* ends with a message lost and with a prompt followed by the other answer.
C25_SerializedIntact ==
    lock # "none" => PairsIntact /\ IsSuffix(messages, appended)

C25_Witness ==
    /\ lock = "none"
    /\ \A t \in Threads : threads[t].pc = "done"
    /\ Len(appended) = 4
    /\ ~IsSuffix(messages, appended)
    /\ ~PairsIntact

\* a token file holding a token that is expired and carries a refresh token
Refreshable(file) ==
    /\ "stored" \in DOMAIN file
    /\ file.stored.expired
    /\ file.stored.refresh_token

\* C26: an authenticate() that found a stored token which is expired and
\* carries a refresh token refreshed it and started no interactive
\* authorization flow.
C26_RefreshedInPlace ==
    (auth_call.op = "authenticate" /\ Refreshable(auth_call.found)) =>
        (auth_call.refreshed /\ ~auth_call.flow)

\* C27: a generate_response whose model call raised leaves the history as
\* it found it: the prompt is not appended, nor anything else.
C27_FailureKeepsHistory ==
    (call.op = "generate_response" /\ Raises(call.outcome)) =>
        /\ messages = call.before
        /\ IsSuffix(messages, appended)

\* a generate_response has failed on a history that held messages
C27_Witness ==
    /\ call.op = "generate_response"
    /\ Raises(call.outcome)
    /\ call.before # <<>>
    /\ messages = call.before

\* C28: with the default history length and only generate_response and
\* reset_context acting, the history always has even length, alternates user
\* and assistant entries starting with a user entry, and is what was appended
\* with whole (prompt, answer) pairs cut off the front, so that every answer
\* stands right after the prompt it answers.
C28_WholePairs ==
    LET n == Len(messages)
    IN  /\ n % 2 = 0
        /\ \A i \in 1..n : messages[i].role = (IF i % 2 = 1 THEN "user" ELSE "assistant")
        /\ IsSuffix(messages, appended)
        /\ (Len(appended) - n) % 2 = 0
        /\ \A i \in 1..Len(appended) :
             appended[i].role = (IF i % 2 = 1 THEN "user" ELSE "assistant")
        /\ (call.op = "generate_response" /\ ~Raises(call.outcome)) =>
              /\ n >= 2
              /\ messages[n - 1] = Message("user", call.prompt)
              /\ messages[n] = Message("assistant", call.outcome.val)

\* the default history is full and a generate_response has evicted the
\* oldest pair
C28_Witness ==
    /\ max_context_length = DefaultMaxContextLength
    /\ call.op = "generate_response"
    /\ Len(call.before) = DefaultMaxContextLength
    /\ Len(appended) > DefaultMaxContextLength
    /\ Len(messages) = DefaultMaxContextLength
    /\ messages[1].role = "user"

\* the result _handle_multi_service_request returns from its except clause
PlannerFailed(f) ==
    /\ f.pc = "done"
    /\ ~Raises(f.outcome)
    /\ IsError(f.outcome.val)
    /\ Len(f.outcome.val.message) >= 1
    /\ f.outcome.val.message[1] = Raw("Multi-service request processing failed: ")

\* C29: a planner activation that returns the error 'Multi-service request
\* processing failed' has invoked no client operation, neither itself nor
\* through the requests it handed back to the router.
C29_FailedBundleRanNothing ==
    \A f \in MultiFrames : PlannerFailed(f) => f.calls = <<>>

\* C30: the messages the extraction call of a request sends to the model
\* are the ones a fresh orchestrator sends for it, the system message and the
\* request: nothing of an earlier request is among them.
C30_RequestsIndependent ==
    call.op = "extract" =>
        call.sent = RequestMessages(<<>>, call.request, ExtractionSystem)

=============================================================================
